---- MODULE Spec2Model ----
(***************************************************************************)
(* AgentMeshClient._request (ai-agent-mesh/sdks/python, client.py): the    *)
(* request dispatcher, the retry policy mounted on its requests.Session,   *)
(* and the error taxonomy of exceptions.py.                                *)
(*                                                                         *)
(* Text is a sequence of fragments (single characters where the code       *)
(* looks at characters, longer literals elsewhere).  One call of _request  *)
(* is followed attempt by attempt: every HTTP attempt is a step in which   *)
(* the server, or the network, chooses the answer.                         *)
(***************************************************************************)
EXTENDS Integers, Sequences, FiniteSets, TLC

\* ------------------------------------------------------------------ bounds
\* The client is built with max_retries in 0..MaxRetries.
MaxRetries == 2
\* Session.max_redirects. requests sets it to 30 (DEFAULT_REDIRECT_LIMIT);
\* the model follows the same rule with a smaller limit, and every
\* statement about redirects is written in terms of this limit.
MaxRedirects == 2
\* Base urls end with, and paths start with, 0..MaxSlashes slashes.
MaxSlashes == 2
\* The number of hex digits of a digest (64 for SHA-256; the model's digest
\* is computed the same way for any number of digits).
DigestLen == 3

\* ------------------------------------------------------------------ text
\* Dropping one trailing c only, as s[:-1] would.
rstrip_once(s, c) ==
  IF s # <<>> /\ s[Len(s)] = c THEN SubSeq(s, 1, Len(s) - 1) ELSE s

RECURSIVE rstrip(_, _)
\* str.rstrip(c): drop every trailing c.
rstrip(s, c) ==
  IF s # <<>> /\ s[Len(s)] = c THEN rstrip(SubSeq(s, 1, Len(s) - 1), c) ELSE s

RECURSIVE lstrip(_, _)
\* str.lstrip(c): drop every leading c.
lstrip(s, c) ==
  IF s # <<>> /\ Head(s) = c THEN lstrip(Tail(s), c) ELSE s

\* Python's `needle in hay` for text.
Contains(hay, needle) ==
  \E i \in 1..(Len(hay) + 1) :
    /\ i + Len(needle) - 1 <= Len(hay)
    /\ SubSeq(hay, i, i + Len(needle) - 1) = needle

\* ------------------------------------------------------------------ JSON
\* A parsed JSON value: its type and its members as <<key, value>> pairs
\* (an array's keys are its indices).  Python's None is JsonNone.
JsonNone == [t |-> "null", v |-> <<>>]
\* The outcome of json() on a body that is not JSON.
JsonInvalid == [t |-> "invalid", v |-> <<>>]
\* No value: an exception was raised, or nothing has been returned yet.
NoValue == [t |-> "absent", v |-> <<>>]

\* The response bodies the server answers with, as raw text.
BodyEmpty == ""
BodyText == "Bad Request"
BodyObject == "{\"a\":1}"
BodyArray == "[1,2]"
BodyMessage == "{\"message\":\"boom\"}"
BodyValidation == "{\"error\":\"validation_error\",\"message\":\"name is required\"}"
Bodies == {BodyEmpty, BodyText, BodyObject, BodyArray, BodyMessage, BodyValidation}

\* response.json(): the value of the body, JsonInvalid when it is not JSON.
ParseJson(text) ==
  CASE text = BodyObject -> [t |-> "object", v |-> << <<"a", "1">> >>]
    [] text = BodyArray -> [t |-> "array", v |-> << <<"0", "1">>, <<"1", "2">> >>]
    [] text = BodyMessage -> [t |-> "object", v |-> << <<"message", "boom">> >>]
    [] text = BodyValidation ->
         [t |-> "object",
          v |-> << <<"error", "validation_error">>, <<"message", "name is required">> >>]
    [] OTHER -> JsonInvalid

\* dict.get(key, default) on a parsed object.
DictGet(obj, key, default) ==
  IF \E i \in 1..Len(obj.v) : obj.v[i][1] = key
  THEN LET i == CHOOSE j \in 1..Len(obj.v) : obj.v[j][1] = key IN obj.v[i][2]
  ELSE default

\* ------------------------------------------------------------------ errors
\* exceptions.py: AgentMeshError and its subclasses.
AgentMeshErrors ==
  {"AgentMeshError", "AuthenticationError", "RateLimitError", "ValidationError",
   "NotFoundError", "NetworkError"}
\* The exceptions of requests that derive from requests.RequestException.
RequestExceptions ==
  {"RetryError", "ConnectionError", "ConnectTimeout", "ReadTimeout",
   "TooManyRedirects", "JSONDecodeError"}

\* What a call gives its caller: a returned value or a raised exception.
Returned(value) == [kind |-> "return", msg |-> <<>>, value |-> value]
Raised(kind, msg) == [kind |-> kind, msg |-> msg, value |-> NoValue]
Pending == [kind |-> "pending", msg |-> <<>>, value |-> NoValue]

\* ------------------------------------------------------------------ client
\* The arguments __init__ is called with.
ApiKey == <<"sk_test">>
BaseUrlArg == <<"h", ":", "/", "/", "x", "/", "v", "3", "/">>
TimeoutArg == 30

\* The methods _request is called with: those of the resource managers and
\* of the retry policy, and one the retry policy does not list.
Methods == {"GET", "POST", "OPTIONS"}
\* The endpoint arguments, character by character.
Endpoints == {<<"/", "a", "/", "7">>, <<"a">>}

\* Retry(status_forcelist=[429, 500, 502, 503, 504]).
status_forcelist == {429, 500, 502, 503, 504}
\* Retry(allowed_methods=["GET", "POST", "PUT", "PATCH", "DELETE"]).
allowed_methods == {"GET", "POST", "PUT", "PATCH", "DELETE"}
\* urllib3 Retry.RETRY_AFTER_STATUS_CODES, honoured because the policy
\* leaves respect_retry_after_header at its default.
RETRY_AFTER_STATUS_CODES == {413, 429, 503}
\* requests: the statuses resolve_redirects follows when a Location is given.
REDIRECT_STATI == {301, 302, 303, 307, 308}

\* ------------------------------------------------------------------ server
Statuses == {200, 302, 307, 400, 401, 404, 413, 422, 429, 500, 502, 503, 504}
\* What one HTTP attempt is answered with: a status, a body, and whether the
\* Retry-After and Location headers are present.  Every body is tried where
\* the dispatcher reads it or is claimed not to (200, 400, 401); the other
\* statuses come with fewer bodies.
Responses ==
  {r \in [status : Statuses, body : Bodies, retry_after : BOOLEAN, location : BOOLEAN] :
     /\ r.retry_after => r.status \in {413, 404}
     /\ r.location => (r.status \in {200, 302, 307} /\ r.body = BodyEmpty)
     /\ r.status \in {404, 413, 429} => r.body \in {BodyEmpty, BodyMessage}
     /\ r.status = 422 => r.body \in {BodyText, BodyValidation}
     /\ r.status = 302 => r.body \in {BodyEmpty, BodyObject}
     /\ r.status = 307 => r.location
     /\ r.status \in (status_forcelist \ {429}) => r.body = BodyEmpty}
NoResponse == [status |-> 0, body |-> BodyEmpty, retry_after |-> FALSE, location |-> FALSE]
\* The transport faults of one attempt.
ConnectFaults == {"dns", "refused", "connect_timeout"}
ReadFaults == {"read_timeout"}
Faults == ConnectFaults \cup ReadFaults

\* What is remembered of the latest answer of a call.
Digest(r) == [status |-> r.status, retry_after |-> r.retry_after, location |-> r.location]
NoDigest == Digest(NoResponse)
FaultDigest == [status |-> -1, retry_after |-> FALSE, location |-> FALSE]

\* ------------------------------------------------------------------ transport
\* is_retry as it would be if every Retry-After header were honoured,
\* whatever the status.
is_retry_any_header(m, r, total) ==
  /\ m \in allowed_methods
  /\ \/ r.status \in status_forcelist
     \/ (total # 0 /\ r.retry_after)

\* Retry.is_retry(method, status, has_retry_after) with `total` retries left.
is_retry(m, r, total) ==
  /\ m \in allowed_methods
  /\ \/ r.status \in status_forcelist
     \/ /\ total # 0
        /\ r.retry_after
        /\ r.status \in RETRY_AFTER_STATUS_CODES

\* Retry.increment: the retries left after one more is used.
increment(total) == total - 1

\* is_exhausted off by one: one retry too many is allowed.
is_exhausted_late(total) == total < -1

\* Retry.is_exhausted.
is_exhausted(total) == total < 0

\* requests: a response that resolve_redirects follows.
is_redirect(r) == r.location /\ r.status \in REDIRECT_STATI

\* SessionRedirectMixin.rebuild_method: the method of the redirected request.
rebuild_method(m, status) ==
  IF status = 303 /\ m # "HEAD" THEN "GET"
  ELSE IF status = 302 /\ m # "HEAD" THEN "GET"
  ELSE IF status = 301 /\ m = "POST" THEN "GET"
  ELSE m

\* HTTPAdapter.send: the requests exception for retries exhausted on a fault.
ExhaustedOn(f) ==
  IF f = "connect_timeout"
  THEN Raised("ConnectTimeout", <<"Max retries exceeded: ", f>>)
  ELSE Raised("ConnectionError", <<"Max retries exceeded: ", f>>)

\* ------------------------------------------------------------------ dispatcher
\* What the try block of _request does with a response: what it returns or
\* raises (out), and whether response.json() was called (parsed).

\* The message built from the path as it is put in the url.
NotFoundMessageStripped(ep) == <<"Resource not found: ">> \o lstrip(ep, "/")

\* The message of NotFoundError: f"Resource not found: {endpoint}".
NotFoundMessage(ep) == <<"Resource not found: ">> \o ep

\* GenericError without the server's text in the message.
GenericErrorNoDetail(response) ==
  [out |-> Raised("AgentMeshError", <<"API error: ", "request failed">>), parsed |-> FALSE]

\* status >= 400, not 401, 404 or 429:
\*   error_data = response.json() if response.content else {}
\*   raise AgentMeshError(f"API error: {error_data.get('message', response.text)}")
GenericError(response) ==
  IF response.body # BodyEmpty
  THEN LET error_data == ParseJson(response.body) IN
       IF error_data = JsonInvalid
       THEN [out |-> Raised("JSONDecodeError", <<"Expecting value">>), parsed |-> TRUE]
       ELSE IF error_data.t # "object"
       THEN [out |-> Raised("AttributeError", <<"object has no attribute 'get'">>),
             parsed |-> TRUE]
       ELSE [out |-> Raised("AgentMeshError",
                            <<"API error: ", DictGet(error_data, "message", response.body)>>),
             parsed |-> TRUE]
  ELSE [out |-> Raised("AgentMeshError", <<"API error: ", response.body>>),
        parsed |-> FALSE]

\* Success that gives only JSON objects back.
SuccessObjectsOnly(response) ==
  IF response.body # BodyEmpty
  THEN LET data == ParseJson(response.body) IN
       IF data = JsonInvalid
       THEN [out |-> Raised("JSONDecodeError", <<"Expecting value">>), parsed |-> TRUE]
       ELSE IF data.t = "object"
       THEN [out |-> Returned(data), parsed |-> TRUE]
       ELSE [out |-> Returned(JsonNone), parsed |-> TRUE]
  ELSE [out |-> Returned(JsonNone), parsed |-> FALSE]

\* status < 400: return response.json() if response.content, else None.
Success(response) ==
  IF response.body # BodyEmpty
  THEN LET data == ParseJson(response.body) IN
       IF data = JsonInvalid
       THEN [out |-> Raised("JSONDecodeError", <<"Expecting value">>), parsed |-> TRUE]
       ELSE [out |-> Returned(data), parsed |-> TRUE]
  ELSE [out |-> Returned(JsonNone), parsed |-> FALSE]

\* The chain with the generic branch tested first.
TryBodyGenericFirst(response, ep) ==
  IF response.status >= 400 /\ response.status # 404 /\ response.status # 429
  THEN GenericError(response)
  ELSE IF response.status = 404
  THEN [out |-> Raised("NotFoundError", NotFoundMessage(ep)), parsed |-> FALSE]
  ELSE IF response.status = 429
  THEN [out |-> Raised("RateLimitError", <<"Rate limit exceeded">>), parsed |-> FALSE]
  ELSE Success(response)

\* The if/elif chain on response.status_code.
TryBody(response, ep) ==
  IF response.status = 401
  THEN [out |-> Raised("AuthenticationError", <<"Invalid API key">>), parsed |-> FALSE]
  ELSE IF response.status = 404
  THEN [out |-> Raised("NotFoundError", NotFoundMessage(ep)), parsed |-> FALSE]
  ELSE IF response.status = 429
  THEN [out |-> Raised("RateLimitError", <<"Rate limit exceeded">>), parsed |-> FALSE]
  ELSE IF response.status >= 400
  THEN GenericError(response)
  ELSE Success(response)

\* The except clause of _request: a requests.RequestException is wrapped
\* into AgentMeshError, anything else passes.
ExceptClause(raw) ==
  IF raw.kind \in RequestExceptions
  THEN Raised("AgentMeshError", <<"Request failed: ">> \o raw.msg)
  ELSE raw

\* ------------------------------------------------------------------ state
VARIABLES
  client,      \* the configuration set by __init__
  pc,          \* "idle", "sending" (inside session.request), "done"
  method,      \* the method argument of the call
  endpoint,    \* the endpoint argument of the call
  url,         \* the url _request builds
  req_method,  \* the method of the request now in flight (changed by redirects)
  total,       \* Retry.total left for the request in flight
  attempts,    \* HTTP attempts made by the call
  redirects,   \* redirects followed by the call
  sleeps,      \* backoff waits (Retry.sleep) of the call
  last,        \* digest of the latest answer of the call
  all_forced,  \* every answer so far had a status of status_forcelist
  response,    \* the response session.request returned, if it returned one
  parsed,      \* response.json() was called
  outcome,     \* what the call gave its caller
  base_arg,    \* the base_url argument __init__ was called with
  sdk,         \* MeshOSPartnerSDK: the fields set by its __init__
  p_pc,        \* MeshOSPartnerSDK: "idle", "sending" (inside requests.request), "done"
  p_call,      \* MeshOSPartnerSDK: the method called, its arguments and locals
  p_out,       \* MeshOSPartnerSDK: what the call gave its caller
  threads,     \* concurrent callers: the call of _request each thread is in
  session      \* concurrent callers: the requests.Session they share

\* The state of the concurrent callers.
conc_vars == <<threads, session>>

\* The state of the partner SDK.
partner_vars == <<sdk, p_pc, p_call, p_out>>

\* What no call of AgentMeshClient._request changes.
others == <<base_arg, partner_vars, conc_vars>>

vars ==
  <<others, client, pc, method, endpoint, url, req_method, total, attempts, redirects,
    sleeps, last, all_forced, response, parsed, outcome>>

call_vars ==
  <<method, endpoint, url, req_method, total, attempts, redirects, sleeps, last,
    all_forced, response, parsed, outcome>>

\* AgentMeshClient.__init__.
NewClient(api_key, base_url, timeout, max_retries) ==
  [api_key |-> api_key,
   base_url |-> rstrip(base_url, "/"),
   timeout |-> timeout,
   max_retries |-> max_retries,
   headers |-> [Authorization |-> <<"Bearer ">> \o api_key,
                ContentType |-> <<"application/json">>,
                XSDKVersion |-> <<"3.0.0">>,
                XSDKLanguage |-> <<"python">>]]

\* No call in progress.
Idle ==
  /\ pc = "idle"
  /\ method = "" /\ endpoint = <<>> /\ url = <<>> /\ req_method = ""
  /\ total = 0 /\ attempts = 0 /\ redirects = 0 /\ sleeps = 0
  /\ last = NoDigest /\ all_forced = TRUE
  /\ response = NoResponse /\ parsed = FALSE /\ outcome = Pending

\* The threads that call _request on one client.
Threads == {"t1", "t2"}

\* A thread that is not in a call.
NoThreadCall ==
  [pc |-> "idle", method |-> "", endpoint |-> <<>>, url |-> <<>>, req_method |-> "",
   total |-> 0, redirects |-> 0, sent_cookies |-> {}, response |-> NoResponse,
   outcome |-> Pending]

\* The session __init__ builds: the default headers it sets, an empty
\* cookie jar, and no pooled connection.
NewSession(c) == [headers |-> c.headers, cookies |-> {}, idle |-> 0]

\* No thread is in a call; the session is as built for client c.
ConcIdle(c) ==
  /\ threads = [t \in Threads |-> NoThreadCall]
  /\ session = NewSession(c)

\* MeshOSPartnerSDK.__init__.
NewPartnerSDK(api_key, partner_id, base_url) ==
  [api_key |-> api_key,
   partner_id |-> partner_id,
   base_url |-> base_url,
   version |-> <<"v1">>,
   timeout |-> 30]

\* No call of the partner SDK in progress.
NoPartnerCall ==
  [op |-> "", method |-> "", req_method |-> "", path |-> <<>>, payload |-> <<>>,
   signature |-> <<>>, secret |-> <<>>, url |-> <<>>,
   headers |-> [Authorization |-> <<>>, XPartnerID |-> <<>>, ContentType |-> <<>>,
                UserAgent |-> <<>>],
   attempts |-> 0, redirects |-> 0, response |-> NoResponse]

\* The arguments MeshOSPartnerSDK is built with.
PartnerKey == <<"pk_test">>
PartnerId == <<"partner-1">>
PartnerBaseUrl == <<"https:", "/", "/", "partner-api.meshos.io">>

PartnerIdle ==
  /\ sdk = NewPartnerSDK(PartnerKey, PartnerId, PartnerBaseUrl)
  /\ p_pc = "idle"
  /\ p_call = NoPartnerCall
  /\ p_out = Pending

Init ==
  /\ PartnerIdle
  /\ base_arg = BaseUrlArg
  /\ \E n \in 0..MaxRetries : client = NewClient(ApiKey, base_arg, TimeoutArg, n)
  /\ ConcIdle(client)
  /\ Idle

\* _request(method, endpoint) up to the call of session.request.
Call(m, ep) ==
  /\ pc = "idle"
  /\ pc' = "sending"
  /\ method' = m
  /\ endpoint' = ep
  /\ url' = client.base_url \o <<"/">> \o lstrip(ep, "/")
  /\ req_method' = m
  /\ total' = client.max_retries
  /\ UNCHANGED <<client, attempts, redirects, sleeps, last, all_forced,
                 response, parsed, outcome>>
  /\ UNCHANGED others

\* The bookkeeping of one more attempt, answered with digest d.
Answered(d) ==
  /\ attempts' = attempts + 1
  /\ last' = d
  /\ all_forced' = (all_forced /\ d.status \in status_forcelist)

\* The call ends: raw is what the try block returned or raised.
Finish(raw, resp, didParse) ==
  /\ pc' = "done"
  /\ outcome' = ExceptClause(raw)
  /\ response' = resp
  /\ parsed' = didParse
  /\ UNCHANGED <<client, method, endpoint, url, req_method, total, redirects, sleeps>>

\* The policy retries the attempt: one retry is used and Retry.sleep runs.
Retry ==
  /\ total' = increment(total)
  /\ sleeps' = sleeps + 1
  /\ UNCHANGED <<client, pc, method, endpoint, url, req_method, redirects, response,
                 parsed, outcome>>

\* One HTTP attempt answered by the server with r.
ServerAnswers(r) ==
  /\ pc = "sending"
  /\ UNCHANGED others
  /\ Answered(Digest(r))
  /\ IF is_retry(req_method, r, total)
     THEN IF is_exhausted(increment(total))
          THEN Finish(Raised("RetryError", <<"Max retries exceeded: too many error responses">>),
                      NoResponse, FALSE)
          ELSE Retry
     ELSE IF is_redirect(r)
     THEN IF redirects >= MaxRedirects
          THEN Finish(Raised("TooManyRedirects", <<"Exceeded redirects">>), NoResponse, FALSE)
          ELSE /\ redirects' = redirects + 1
               /\ req_method' = rebuild_method(req_method, r.status)
               /\ total' = client.max_retries
               /\ UNCHANGED <<client, pc, method, endpoint, url, sleeps, response, parsed,
                              outcome>>
     ELSE LET t == TryBody(r, endpoint) IN Finish(t.out, r, t.parsed)

\* One HTTP attempt that ends in a transport fault f.
TransportFault(f) ==
  /\ pc = "sending"
  /\ UNCHANGED others
  /\ Answered(FaultDigest)
  /\ IF f \in ReadFaults /\ req_method \notin allowed_methods
     THEN Finish(Raised("ReadTimeout", <<"Read timed out">>), NoResponse, FALSE)
     ELSE IF is_exhausted(increment(total))
     THEN Finish(ExhaustedOn(f), NoResponse, FALSE)
     ELSE Retry

\* The caller has the outcome; the client is ready for the next call.
Return ==
  /\ pc = "done"
  /\ pc' = "idle"
  /\ method' = "" /\ endpoint' = <<>> /\ url' = <<>> /\ req_method' = ""
  /\ total' = 0 /\ attempts' = 0 /\ redirects' = 0 /\ sleeps' = 0
  /\ last' = NoDigest /\ all_forced' = TRUE
  /\ response' = NoResponse /\ parsed' = FALSE /\ outcome' = Pending
  /\ UNCHANGED client
  /\ UNCHANGED others

Next ==
  \/ \E m \in Methods, ep \in Endpoints : Call(m, ep)
  \/ \E r \in Responses : ServerAnswers(r)
  \/ \E f \in Faults : TransportFault(f)
  \/ Return

Spec == Init /\ [][Next]_vars

\* Every HTTP attempt ends: session.request is called with
\* timeout=self.timeout, so an attempt is answered or fails with a fault.
Attempt == (\E r \in Responses : ServerAnswers(r)) \/ (\E f \in Faults : TransportFault(f))
LiveSpec == Spec /\ WF_vars(Attempt)

\* ------------------------------------------------------------------ claims
Done == pc = "done"
\* session.request returned a response to the dispatcher.
Delivered == Done /\ response # NoResponse
\* The text the server provided: the message field of a JSON object body,
\* the raw text otherwise.
ServerMessage(r) == DictGet(ParseJson(r.body), "message", r.body)

\* C1 as claimed: no call makes more than 1 + max_retries HTTP attempts.
C1_AtMostOnePlusN == attempts <= 1 + client.max_retries

\* The counts of C1 as amended: at most 1 + max_retries attempts per
\* request of a call (the first and one per followed redirect), at most
\* max_redirects followed redirects, and exactly 1 + max_retries attempts
\* ending in a raised error when every answer has a status of the forcelist
\* and the method is one of the policy's.
C1_Counts ==
  /\ attempts <= (1 + redirects) * (1 + client.max_retries)
  /\ redirects <= MaxRedirects
  /\ (redirects = 0 => attempts <= 1 + client.max_retries)
  /\ (Done /\ all_forced /\ method \in allowed_methods) =>
       /\ attempts = 1 + client.max_retries
       /\ outcome.kind = "AgentMeshError"
       /\ outcome.msg[1] = "Request failed: "

\* C1 (amended): retries are bounded.  A call makes at most 1 + N attempts
\* for each request it sends (the first, and one per redirect followed, at
\* most max_redirects of them); against a server that answers every attempt
\* with a status of {429,500,502,503,504} it makes exactly 1 + N attempts and
\* raises an error; and every call terminates.
C1_RetriesBounded == []C1_Counts /\ (pc = "sending" ~> pc = "done")

C1_Witness ==
  /\ Done /\ all_forced /\ method = "POST"
  /\ client.max_retries = 2 /\ attempts = 3
  /\ outcome.kind = "AgentMeshError"

\* C2 as claimed: when the latest answer of the server has status 429 the
\* call fails with RateLimitError, also after the adapter retried 429 and
\* exhausted its retries.
C2_RateLimitAfterRetries ==
  (Done /\ last.status = 429) => outcome.kind = "RateLimitError"

\* C3 as claimed: a first answer whose status is not in the retryable set
\* ends the call: one attempt, no backoff wait.
C3_OneAttempt ==
  (attempts = 1 /\ last.status > 0 /\ last.status \notin status_forcelist) =>
    (Done /\ sleeps = 0)

\* C3 (amended): a first answer whose status is not in the retryable set
\* ends the call with one attempt and no backoff wait, unless it is a
\* redirect (301, 302, 303, 307, 308 with a Location), which is followed by
\* a further request, or a 413 with a Retry-After header on a client with
\* max_retries >= 1 and a method of the policy, which is retried.
C3_OneAttemptUnlessFollowed ==
  ( /\ attempts = 1
    /\ last.status > 0
    /\ last.status \notin status_forcelist
    /\ ~(last.location /\ last.status \in {301, 302, 303, 307, 308})
    /\ ~(last.retry_after /\ last.status = 413 /\ client.max_retries >= 1
         /\ method \in allowed_methods) ) =>
    (Done /\ sleeps = 0 /\ redirects = 0 /\ response.status = last.status)

C3_Witness ==
  /\ Done /\ attempts = 1 /\ sleeps = 0
  /\ last.status = 404 /\ last.retry_after
  /\ client.max_retries = 2 /\ method = "GET"

\* C4 as claimed: every call returns a value or raises AgentMeshError or
\* one of its subclasses, whatever the status, the body or the fault.
C4_TypedOutcome ==
  Done => (outcome.kind = "return" \/ outcome.kind \in AgentMeshErrors)

\* C5 as claimed: a response with status >= 400 other than 401, 404, 429
\* raises AgentMeshError with "API error: " and the message field of the
\* JSON body when present, the raw text otherwise, also for a body that is
\* not JSON.
C5_GenericMessage ==
  (Delivered /\ response.status >= 400 /\ response.status \notin {401, 404, 429}) =>
    outcome = Raised("AgentMeshError", <<"API error: ", ServerMessage(response)>>)

\* C6: a response with 200 <= status < 400 returns None for an empty body
\* and the parsed value for a JSON body, object or not, and never raises an
\* error decided by the status.
C6_SuccessReturnsBody ==
  (Delivered /\ response.status >= 200 /\ response.status < 400) =>
    /\ response.body = BodyEmpty => (outcome = Returned(JsonNone) /\ ~parsed)
    /\ response.body = BodyObject =>
         outcome = Returned([t |-> "object", v |-> << <<"a", "1">> >>])
    /\ response.body = BodyArray =>
         outcome = Returned([t |-> "array", v |-> << <<"0", "1">>, <<"1", "2">> >>])
    /\ response.body \in {BodyMessage, BodyValidation} =>
         (outcome.kind = "return" /\ outcome.value.t = "object"
          /\ outcome.value.v[Len(outcome.value.v)][1] = "message")
    /\ outcome.kind \notin {"AuthenticationError", "NotFoundError", "RateLimitError",
                            "ValidationError", "AttributeError"}
    /\ (outcome.kind = "AgentMeshError" => outcome.msg[1] # "API error: ")

C6_Witness ==
  /\ Delivered /\ response.status = 200 /\ response.body = BodyArray
  /\ outcome.kind = "return" /\ outcome.value.t = "array"

\* C7: a response with status 401 raises AuthenticationError whatever the
\* body, the method and the path, and the body is not parsed.
C7_Unauthorized ==
  (Delivered /\ response.status = 401) =>
    (outcome = Raised("AuthenticationError", <<"Invalid API key">>) /\ ~parsed)

C7_Witness ==
  /\ Delivered /\ response.status = 401 /\ response.body = BodyArray
  /\ method = "POST" /\ outcome.kind = "AuthenticationError"

\* C8: a response with status 404 raises NotFoundError and the message
\* contains the endpoint argument of the call.
C8_NotFoundHasPath ==
  (Delivered /\ response.status = 404) =>
    (outcome.kind = "NotFoundError" /\ Contains(outcome.msg, endpoint))

C8_Witness ==
  /\ Delivered /\ response.status = 404 /\ endpoint = <<"/", "a", "/", "7">>
  /\ outcome.kind = "NotFoundError"

\* C9 as claimed: an error response whose payload indicates a validation
\* problem (status 400 or 422) is raised as ValidationError.
C9_ValidationRaised ==
  (Delivered /\ response.status \in {400, 422} /\ response.body = BodyValidation) =>
    outcome.kind = "ValidationError"

\* The status is recoverable from the error: its kind stands for one
\* status, or its message has the status.
StatusRecoverable ==
  \/ outcome.kind \in {"AuthenticationError", "NotFoundError", "RateLimitError"}
  \/ \E i \in 1..Len(outcome.msg) : outcome.msg[i] = ToString(response.status)
\* The server's text is in the error's message.
MessageRecoverable ==
  \E i \in 1..Len(outcome.msg) : outcome.msg[i] = ServerMessage(response)

RECURSIVE Slashes(_)
\* n slashes.
Slashes(n) == IF n = 0 THEN <<>> ELSE <<"/">> \o Slashes(n - 1)

\* The base urls clients are built with and the paths they are called
\* with: a stem (which may hold slashes inside, or be empty) with slashes
\* after it, or before it.
UrlBaseStems == {<<"https:", "/", "/", "api.example.com", "/", "v3">>, <<"h">>, <<>>}
UrlPathStems == {<<"agents", "/", "123">>, <<"a", "/">>, <<>>}
UrlBases == {stem \o Slashes(k) : stem \in UrlBaseStems, k \in 0..MaxSlashes}
UrlPaths == {Slashes(k) \o stem : stem \in UrlPathStems, k \in 0..MaxSlashes}
\* The answers of the server in UrlSpec.
UrlResponses == {r \in Responses : r.status \in {200, 404} /\ ~r.retry_after /\ ~r.location}

\* AgentMeshClient(api_key, base_url=b) for each base url.
UrlInit ==
  /\ PartnerIdle
  /\ base_arg \in UrlBases
  /\ client = NewClient(ApiKey, base_arg, TimeoutArg, 0)
  /\ ConcIdle(client)
  /\ Idle

UrlNext ==
  \/ \E ep \in UrlPaths : Call("GET", ep)
  \/ \E r \in UrlResponses : ServerAnswers(r)
  \/ Return

UrlSpec == UrlInit /\ [][UrlNext]_vars

\* The number of characters of b before its trailing slashes.
BaseLen(b) ==
  CHOOSE i \in 0..Len(b) :
    /\ i = 0 \/ b[i] # "/"
    /\ \A k \in (i + 1)..Len(b) : b[k] = "/"
\* The number of leading slashes of ep.
LeadLen(ep) ==
  CHOOSE j \in 0..Len(ep) :
    /\ j = Len(ep) \/ ep[j + 1] # "/"
    /\ \A k \in 1..j : ep[k] = "/"

\* C11: the request url is the base without its trailing slashes, one
\* slash, and the path without its leading slashes: at the join there is
\* one slash, neither two nor none, and the base with a trailing slash
\* gives the url of the base without it (https://api.example.com/v3 and
\* /agents/123 give https://api.example.com/v3/agents/123).
C11_UrlJoin ==
  pc # "idle" =>
    LET nb == BaseLen(base_arg)
        np == LeadLen(endpoint)
    IN /\ url = SubSeq(base_arg, 1, nb) \o <<"/">> \o SubSeq(endpoint, np + 1, Len(endpoint))
       /\ url[nb + 1] = "/"
       /\ nb > 0 => url[nb] # "/"
       /\ Len(url) > nb + 1 => url[nb + 2] # "/"
       /\ ( /\ SubSeq(base_arg, 1, nb) = <<"https:", "/", "/", "api.example.com", "/", "v3">>
            /\ SubSeq(endpoint, np + 1, Len(endpoint)) = <<"agents", "/", "123">> ) =>
            url = <<"https:", "/", "/", "api.example.com", "/", "v3", "/", "agents", "/", "123">>

C11_Witness ==
  /\ pc = "sending"
  /\ base_arg = <<"https:", "/", "/", "api.example.com", "/", "v3", "/", "/">>
  /\ endpoint = <<"/", "agents", "/", "123">>
  /\ url = <<"https:", "/", "/", "api.example.com", "/", "v3", "/", "agents", "/", "123">>

\* ------------------------------------------------------------------ partner SDK
\* Every other variable stays as it is while the partner SDK runs.
client_vars == <<client, pc, call_vars, base_arg, conc_vars>>

\* Python's True and False.
JsonTrue == [t |-> "true", v |-> <<>>]
JsonFalse == [t |-> "false", v |-> <<>>]

\* A character outside ASCII (e with an acute accent).
NonAsciiChar == "U+00E9"
HexChars == <<"0", "1", "2", "3", "4", "5", "6", "7", "8", "9", "a", "b", "c", "d", "e", "f">>

\* str.encode(): the UTF-8 bytes of one character, and of a text.
Utf8(ch) ==
  CASE ch = "h" -> <<104>> [] ch = "e" -> <<101>> [] ch = "l" -> <<108>>
    [] ch = "o" -> <<111>> [] ch = "s" -> <<115>> [] ch = "k" -> <<107>>
    [] ch = NonAsciiChar -> <<195, 169>>
    [] OTHER -> <<63>>
RECURSIVE Encode(_)
Encode(text) == IF text = <<>> THEN <<>> ELSE Utf8(Head(text)) \o Encode(Tail(text))

RECURSIVE Pow16(_)
Pow16(n) == IF n = 0 THEN 1 ELSE 16 * Pow16(n - 1)
RECURSIVE Absorb(_, _)
\* The digest state after the bytes are fed to it.
Absorb(h, bytes) ==
  IF bytes = <<>> THEN h
  ELSE Absorb((h * 31 + Head(bytes) + 1) % Pow16(DigestLen), Tail(bytes))
\* hexdigest(): the n lowercase hex digits of h, most significant first.
HexDigest(h, n) == [i \in 1..n |-> HexChars[((h \div Pow16(n - i)) % 16) + 1]]

\* hmac.new(key, msg, hashlib.sha256).hexdigest(): a keyed digest of the
\* message bytes, in hex.  The digest is a small one of the same shape.
HmacHex(key, msg) ==
  HexDigest(Absorb((Absorb(7, key) * 17 + 5) % Pow16(DigestLen), msg), DigestLen)

\* hmac.compare_digest(a, b) on two str: TypeError when either holds a
\* character outside ASCII, else whether they are equal.
CompareDigest(a, b) ==
  IF \E i \in 1..Len(a) : a[i] = NonAsciiChar
  THEN Raised("TypeError", <<"comparing strings with non-ASCII characters is not supported">>)
  ELSE IF \E i \in 1..Len(b) : b[i] = NonAsciiChar
  THEN Raised("TypeError", <<"comparing strings with non-ASCII characters is not supported">>)
  ELSE Returned(IF a = b THEN JsonTrue ELSE JsonFalse)

\* MeshOSPartnerSDK.verify_webhook_signature(payload, signature, secret).
VerifyWebhookSignature(payload, signature, secret) ==
  LET expected_signature == HmacHex(Encode(secret), Encode(payload))
  IN CompareDigest(signature, expected_signature)

\* The payloads and secrets of the webhooks, and the signatures received
\* with them: the right one, the right one with one character changed (to
\* another digit, to upper case, to a letter that is no hex digit, to a
\* character outside ASCII), too short, too long, and empty.
Payloads == {<<"h", "e", "l", "l", "o">>, <<>>, <<"h", NonAsciiChar>>}
Secrets == {<<"s">>, <<"k", "s">>}
AltChars == {"0", "7", "f", "F", "z", NonAsciiChar}
Signatures(e) ==
  {e, <<>>, SubSeq(e, 1, Len(e) - 1), e \o <<"0">>}
    \cup {[e EXCEPT ![i] = c] : i \in 1..Len(e), c \in AltChars}

\* MeshOSPartnerSDK._get_headers.
GetHeaders(k) ==
  [Authorization |-> <<"Bearer ">> \o k.api_key,
   XPartnerID |-> k.partner_id,
   ContentType |-> <<"application/json">>,
   UserAgent |-> <<"MeshOS-Partner-SDK-Python/1.0.0">>]
NoHeaders ==
  [Authorization |-> <<>>, XPartnerID |-> <<>>, ContentType |-> <<>>, UserAgent |-> <<>>]

\* The call record of the partner SDK.
PartnerCall(op, m, path, payload, signature, secret, u, h) ==
  [op |-> op, method |-> m, req_method |-> m, path |-> path, payload |-> payload,
   signature |-> signature, secret |-> secret, url |-> u, headers |-> h,
   attempts |-> 0, redirects |-> 0, response |-> NoResponse]

\* The methods and paths MeshOSPartnerSDK._request is called with.
PartnerMethods == {"GET", "POST", "DELETE"}
PartnerPaths == {<<"/", "regions">>, <<"/", "webhooks", "/", "7">>}
\* What the partner API answers one attempt with.
PartnerResponses ==
  {r \in [status : {200, 302, 400, 401, 404, 429, 500, 600}, body : Bodies,
          retry_after : BOOLEAN, location : BOOLEAN] :
     /\ r.retry_after => r.status = 429
     /\ r.location => (r.status \in {200, 302} /\ r.body = BodyEmpty)
     /\ r.status \in {302, 401, 429, 500} => r.body \in {BodyEmpty, BodyMessage}
     /\ r.status = 600 => r.body \in {BodyEmpty, BodyObject}}

\* requests.exceptions.RequestException and its subclasses, HTTPError of
\* raise_for_status included.
PartnerRequestExceptions == RequestExceptions \cup {"HTTPError"}

\* The try block of _request without raise_for_status.
PartnerTryNoRaise(r) ==
  IF ParseJson(r.body) = JsonInvalid
  THEN Raised("JSONDecodeError", <<"Expecting value">>)
  ELSE Returned(ParseJson(r.body))

\* The try block of MeshOSPartnerSDK._request from the response on:
\* response.raise_for_status(); return response.json().
PartnerTry(r) ==
  IF r.status >= 400 /\ r.status < 600
  THEN Raised("HTTPError", <<ToString(r.status), " Error for url">>)
  ELSE IF ParseJson(r.body) = JsonInvalid
  THEN Raised("JSONDecodeError", <<"Expecting value">>)
  ELSE Returned(ParseJson(r.body))

\* except requests.exceptions.RequestException as e:
\*   raise Exception(f"API request failed: {str(e)}")
PartnerExcept(raw) ==
  IF raw.kind \in PartnerRequestExceptions
  THEN Raised("Exception", <<"API request failed: ">> \o raw.msg)
  ELSE raw

\* verify_webhook_signature, from call to return.
Verify(payload, signature, secret) ==
  /\ p_pc = "idle"
  /\ p_pc' = "done"
  /\ p_call' = PartnerCall("verify", "", <<>>, payload, signature, secret, <<>>, NoHeaders)
  /\ p_out' = VerifyWebhookSignature(payload, signature, secret)
  /\ UNCHANGED <<sdk, client_vars>>

\* MeshOSPartnerSDK._request(method, path) up to requests.request.
PartnerRequest(m, path) ==
  /\ p_pc = "idle"
  /\ p_pc' = "sending"
  /\ p_call' = PartnerCall("request", m, path, <<>>, <<>>, <<>>,
                           sdk.base_url \o <<"/">> \o sdk.version \o path, GetHeaders(sdk))
  /\ UNCHANGED <<sdk, p_out, client_vars>>

\* The partner call ends with what the try block returned or raised.
PartnerFinish(raw, resp) ==
  /\ p_pc' = "done"
  /\ p_out' = PartnerExcept(raw)
  /\ p_call' = [p_call EXCEPT !.attempts = @ + 1, !.response = resp]

\* One HTTP attempt of requests.request answered with r.  The adapter of a
\* new Session retries nothing; redirects are followed.
PartnerAnswers(r) ==
  /\ p_pc = "sending"
  /\ UNCHANGED <<sdk, client_vars>>
  /\ IF is_redirect(r)
     THEN IF p_call.redirects >= MaxRedirects
          THEN PartnerFinish(Raised("TooManyRedirects", <<"Exceeded redirects">>), NoResponse)
          ELSE /\ p_call' = [p_call EXCEPT !.attempts = @ + 1, !.redirects = @ + 1,
                                          !.req_method = rebuild_method(@, r.status)]
               /\ UNCHANGED <<p_pc, p_out>>
     ELSE PartnerFinish(PartnerTry(r), r)

\* One HTTP attempt of requests.request that ends in a transport fault.
PartnerFault(f) ==
  /\ p_pc = "sending"
  /\ UNCHANGED <<sdk, client_vars>>
  /\ IF f \in ReadFaults
     THEN PartnerFinish(Raised("ReadTimeout", <<"Read timed out">>), NoResponse)
     ELSE PartnerFinish(ExhaustedOn(f), NoResponse)

\* The caller has the outcome.
PartnerReturn ==
  /\ p_pc = "done"
  /\ p_pc' = "idle"
  /\ p_call' = NoPartnerCall
  /\ p_out' = Pending
  /\ UNCHANGED <<sdk, client_vars>>

PartnerInit ==
  /\ PartnerIdle
  /\ base_arg = BaseUrlArg
  /\ client = NewClient(ApiKey, base_arg, TimeoutArg, 0)
  /\ ConcIdle(client)
  /\ Idle

PartnerNext ==
  \/ \E payload \in Payloads, secret \in Secrets :
       \E signature \in Signatures(HmacHex(Encode(secret), Encode(payload))) :
         Verify(payload, signature, secret)
  \/ \E m \in PartnerMethods, path \in PartnerPaths : PartnerRequest(m, path)
  \/ \E r \in PartnerResponses : PartnerAnswers(r)
  \/ \E f \in Faults : PartnerFault(f)
  \/ PartnerReturn

PartnerSpec == PartnerInit /\ [][PartnerNext]_vars

\* C12 as claimed: verify_webhook_signature returns True exactly when the
\* signature is the hex HMAC of the payload under the secret, and False
\* for every other signature; it never raises.
C12_VerifyIsBoolean ==
  (p_pc = "done" /\ p_call.op = "verify") =>
    p_out = Returned(IF p_call.signature
                          = HmacHex(Encode(p_call.secret), Encode(p_call.payload))
                     THEN JsonTrue ELSE JsonFalse)

\* ------------------------------------------------------------------ concurrent callers
\* Several threads call _request on one client.  `method`, `endpoint`,
\* `url` and `response` are locals of each call; self.session is shared.

\* What an attempt of a concurrent call is answered with: a response, and
\* whether it carries a Set-Cookie header.
ConcResponses ==
  {r \in [status : {200, 302, 404, 503}, body : {BodyEmpty, BodyObject, BodyMessage},
          retry_after : {FALSE}, location : BOOLEAN, set_cookie : BOOLEAN] :
     /\ r.location = (r.status = 302)
     /\ r.status = 200 => r.body = BodyObject
     /\ r.status = 404 => r.body = BodyMessage
     /\ r.status \in {302, 503} => r.body = BodyEmpty
     /\ r.set_cookie => r.status = 200}
\* The response as the dispatcher sees it.
Seen(r) ==
  [status |-> r.status, body |-> r.body, retry_after |-> r.retry_after,
   location |-> r.location]
\* The transport faults of a concurrent call.
ConcFaults == {"refused", "read_timeout"}
\* The methods and the retry budget of the concurrent calls.
ConcMethods == {"GET"}
ConcMaxRetries == 1

\* Session.send and HTTPAdapter.send on a response: the cookies of the
\* response go to session.cookies, the connection goes back to the pool.
SessionAfterResponse(s, r) ==
  [s EXCEPT !.cookies = IF r.set_cookie THEN @ \cup {"sid"} ELSE @,
            !.idle = @ + 1]

\* HTTPConnectionPool._get_conn: an idle connection is taken, or a new one
\* is opened.
SessionAfterGetConn(s) == [s EXCEPT !.idle = IF @ > 0 THEN @ - 1 ELSE 0]

\* Thread t calls _request(method, endpoint), up to session.request.
ThreadCall(t, m, ep) ==
  /\ threads[t].pc = "idle"
  /\ threads' = [threads EXCEPT ![t] =
       [@ EXCEPT !.pc = "ready", !.method = m, !.endpoint = ep,
                 !.url = client.base_url \o <<"/">> \o lstrip(ep, "/"),
                 !.req_method = m, !.total = client.max_retries]]
  /\ UNCHANGED <<session, client, pc, call_vars, base_arg, partner_vars>>

\* Thread t sends one attempt: the request is prepared with the cookies
\* of the session and a connection is taken from the pool.
ThreadSend(t) ==
  /\ threads[t].pc = "ready"
  /\ threads' = [threads EXCEPT ![t] =
       [@ EXCEPT !.pc = "waiting", !.sent_cookies = session.cookies]]
  /\ session' = SessionAfterGetConn(session)
  /\ UNCHANGED <<client, pc, call_vars, base_arg, partner_vars>>

\* The call of thread t ends: raw is what its try block returned or raised.
ThreadFinish(t, raw, resp) ==
  threads' = [threads EXCEPT ![t] =
    [@ EXCEPT !.pc = "done", !.outcome = ExceptClause(raw), !.response = resp]]

\* The policy retries the attempt of thread t.
ThreadRetry(t) ==
  threads' = [threads EXCEPT ![t] =
    [@ EXCEPT !.pc = "ready", !.total = increment(@)]]

\* The attempt of thread t is answered by the server with r.
ThreadAnswered(t, r) ==
  LET c == threads[t] IN
  /\ c.pc = "waiting"
  /\ session' = SessionAfterResponse(session, r)
  /\ IF is_retry(c.req_method, Seen(r), c.total)
     THEN IF is_exhausted(increment(c.total))
          THEN ThreadFinish(t, Raised("RetryError",
                                      <<"Max retries exceeded: too many error responses">>),
                            NoResponse)
          ELSE ThreadRetry(t)
     ELSE IF is_redirect(Seen(r))
     THEN IF c.redirects >= MaxRedirects
          THEN ThreadFinish(t, Raised("TooManyRedirects", <<"Exceeded redirects">>),
                            NoResponse)
          ELSE threads' = [threads EXCEPT ![t] =
                 [@ EXCEPT !.pc = "ready", !.redirects = @ + 1,
                           !.req_method = rebuild_method(@, r.status),
                           !.total = client.max_retries]]
     ELSE ThreadFinish(t, TryBody(Seen(r), c.endpoint).out, Seen(r))
  /\ UNCHANGED <<client, pc, call_vars, base_arg, partner_vars>>

\* The attempt of thread t ends in a transport fault f: its connection is
\* closed, not returned to the pool.
ThreadFault(t, f) ==
  LET c == threads[t] IN
  /\ c.pc = "waiting"
  /\ IF f \in ReadFaults /\ c.req_method \notin allowed_methods
     THEN ThreadFinish(t, Raised("ReadTimeout", <<"Read timed out">>), NoResponse)
     ELSE IF is_exhausted(increment(c.total))
     THEN ThreadFinish(t, ExhaustedOn(f), NoResponse)
     ELSE ThreadRetry(t)
  /\ UNCHANGED <<session, client, pc, call_vars, base_arg, partner_vars>>

\* The caller on thread t has the outcome.
ThreadReturn(t) ==
  /\ threads[t].pc = "done"
  /\ threads' = [threads EXCEPT ![t] = NoThreadCall]
  /\ UNCHANGED <<session, client, pc, call_vars, base_arg, partner_vars>>

ConcInit ==
  /\ PartnerIdle
  /\ base_arg = BaseUrlArg
  /\ client = NewClient(ApiKey, base_arg, TimeoutArg, ConcMaxRetries)
  /\ ConcIdle(client)
  /\ Idle

ConcNext ==
  \/ \E t \in Threads, m \in ConcMethods, ep \in Endpoints : ThreadCall(t, m, ep)
  \/ \E t \in Threads : ThreadSend(t)
  \/ \E t \in Threads, r \in ConcResponses : ThreadAnswered(t, r)
  \/ \E t \in Threads, f \in ConcFaults : ThreadFault(t, f)
  \/ \E t \in Threads : ThreadReturn(t)

ConcSpec == ConcInit /\ [][ConcNext]_vars

\* The configuration of the client is as __init__ set it.
ConfigAsConstructed ==
  /\ client = NewClient(ApiKey, base_arg, TimeoutArg, ConcMaxRetries)
  /\ session.headers = NewClient(ApiKey, base_arg, TimeoutArg, ConcMaxRetries).headers

\* C13 as claimed: concurrent calls change no state of the client other
\* than the connection pool of the transport: the configuration and the
\* session, its cookie jar included, stay as constructed.
C13_OnlyPoolChanges ==
  /\ ConfigAsConstructed
  /\ session.cookies = NewSession(client).cookies

\* The outcome of the call of thread t is the one of its own last answer
\* and its own endpoint.
OwnOutcome(t) ==
  LET c == threads[t] IN
  (c.pc = "done" /\ c.response # NoResponse) =>
    /\ c.outcome = ExceptClause(TryBody(c.response, c.endpoint).out)
    /\ c.response.status = 404 => c.outcome = Raised("NotFoundError", NotFoundMessage(c.endpoint))
    /\ c.response.status = 200 => c.outcome = Returned(ParseJson(c.response.body))
    /\ c.url = rstrip(base_arg, "/") \o <<"/">> \o lstrip(c.endpoint, "/")

\* The part of C13 that holds: api_key, base_url, timeout, the retry
\* policy and the default headers of the session keep the values of
\* construction through every interleaving of concurrent calls, and the
\* dispatcher maps each call's own last answer with its own endpoint.
C13_ConfigUnchanged ==
  /\ ConfigAsConstructed
  /\ \A t \in Threads : OwnOutcome(t)

\* Two calls are in flight on one session: the answer to one has put a
\* cookie in the jar of the session, and the attempt the other then sent
\* carries that cookie.
C13_Witness ==
  \E t \in Threads, u \in Threads :
    /\ t # u
    /\ threads[t].pc = "done" /\ threads[t].response.status = 200
    /\ threads[t].sent_cookies = {}
    /\ threads[u].pc = "waiting" /\ threads[u].endpoint # threads[t].endpoint
    /\ threads[u].sent_cookies # {}
    /\ ConfigAsConstructed

\* The partner call is a call of _request that has ended.
PartnerDone == p_pc = "done" /\ p_call.op = "request"
\* requests.request handed a response to _request.
PartnerDelivered == PartnerDone /\ p_call.response # NoResponse
\* The headers of the instance are on the request.
PartnerHeadersSent ==
  /\ p_call.headers.Authorization = <<"Bearer ">> \o sdk.api_key
  /\ p_call.headers.XPartnerID = sdk.partner_id
\* The call raised a plain Exception that starts with "API request failed: ".
PartnerFailed ==
  /\ p_out.kind = "Exception"
  /\ p_out.msg[1] = "API request failed: "
  /\ p_out.kind \notin AgentMeshErrors
\* The body is JSON (an empty body is not).
IsJsonBody(body) == body \in {BodyObject, BodyArray, BodyMessage, BodyValidation}

\* C14 as claimed: one HTTP attempt per call; the instance's headers on
\* it; a response with status < 400 and a JSON body returns the parsed
\* body; every response with status >= 400, every transport fault and every
\* success response with an empty or non-JSON body raises a plain Exception
\* "API request failed: ...".
C14_OneAttempt ==
  PartnerDone =>
    /\ p_call.attempts = 1
    /\ PartnerHeadersSent
    /\ IF PartnerDelivered /\ p_call.response.status < 400
          /\ IsJsonBody(p_call.response.body)
       THEN p_out = Returned(ParseJson(p_call.response.body))
       ELSE PartnerFailed

\* C14 (amended): one HTTP attempt per request sent and no retry, so one
\* attempt per call and one more for each redirect followed (at most
\* max_redirects); the instance's headers on the request issued; a response
\* with a JSON body and a status below 400, or from 600 up, returns the
\* parsed body; every response with a status of 400..599, every transport
\* fault, one redirect too many and every other response with an empty or
\* non-JSON body raises a plain Exception "API request failed: ...".
C14_OneAttemptPerRequest ==
  /\ p_call.op = "request" =>
       /\ p_call.redirects <= MaxRedirects
       /\ p_pc = "sending" => p_call.attempts = p_call.redirects
       /\ p_pc = "done" => p_call.attempts = 1 + p_call.redirects
       /\ PartnerHeadersSent
  /\ PartnerDone =>
       /\ IF /\ PartnerDelivered
             /\ p_call.response.status < 400 \/ p_call.response.status >= 600
             /\ IsJsonBody(p_call.response.body)
          THEN /\ p_out.kind = "return"
               /\ p_call.response.body = BodyObject =>
                    p_out.value = [t |-> "object", v |-> << <<"a", "1">> >>]
               /\ p_call.response.body = BodyArray =>
                    p_out.value = [t |-> "array", v |-> << <<"0", "1">>, <<"1", "2">> >>]
               /\ p_out.value = ParseJson(p_call.response.body)
          ELSE PartnerFailed

C14_Witness ==
  /\ PartnerDelivered /\ p_call.response.status = 404
  /\ p_call.response.body = BodyObject
  /\ p_call.attempts = 1 /\ p_call.method = "DELETE"
  /\ PartnerFailed

====
